---- MODULE Spec2Model ----
(***************************************************************************)
(* The field-update engine of gmes/fdtd.py: class FDTD and its nine        *)
(* reduced-dimensionality subclasses.  The model follows one engine object *)
(* from the point of its constructor where storage has been allocated      *)
(* (fdtd.py line 73), through init_material, init_source and a bounded     *)
(* number of step() calls, with one worker per threading.Thread the code   *)
(* starts.                                                                 *)
(*                                                                         *)
(* Numbers.  time_step.n advances in halves, so it is kept in half units:  *)
(* nH = 2 * n and tH = 2 * t.  "n += .5" is nH + 1, "n += 5" is nH + 10,   *)
(* "t = n * dt" is tH = nH * Dt and "t += dt" is tH + 2 * Dt.              *)
(*                                                                         *)
(* Collaborators that are not part of fdtd.py (the discretization, the     *)
(* geometry tree, the pointwise material and source catalogues) are        *)
(* modelled from their contracts; those definitions are marked as such.    *)
(***************************************************************************)
EXTENDS Integers, Sequences, FiniteSets, TLC

\* ------------------------------------------------------------------ bounds

\* Extent of every storage array along x.  The extent along y and z is two
\* cells (see Shape), the least at which each of the six components has both
\* boundary cells and interior cells.
Nx == 2

\* Number of public calls the caller makes on a constructed engine.
MaxCalls == 2

\* The time step space.dt, in model units.
Dt == 2

\* Number of step() calls of the stepping scenario of the one-dimensional
\* classes.
ScenarioCalls == 10

\* Greatest length of the geometry list and of the source list a caller
\* hands to the constructor.
MaxList == 2

\* Number of show requests the caller makes.
MaxShows == 3

\* Extent along x of the arrays the unit test of the zero rules works on;
\* their extent along y and z is one cell.
TestLen == 3

\* --------------------------------------------------------- program constants

\* "self.time_step.n += .5", in half units.
HALF == 1

\* "self.time_step.n += 5" of the TEM variants, in half units.
TEM_INC == 10

\* ------------------------------------------------------------ static tables

Comps == {"ex", "ey", "ez", "hx", "hy", "hz"}

IsE(c) == c \in {"ex", "ey", "ez"}

Variants == {"FDTD", "TEx", "TEy", "TEz", "TMx", "TMy", "TMz",
             "TEMx", "TEMy", "TEMz"}

Shape == <<Nx, 2, 2>>

Cells == (0 .. Shape[1] - 1) \X (0 .. Shape[2] - 1) \X (0 .. Shape[3] - 1)

NCells == Shape[1] * Shape[2] * Shape[3]

\* The n-th index (from 0) in the C order of numpy's ndindex and ndarray.flat.
CellAt(n) ==
    << n \div (Shape[2] * Shape[3]), (n \div Shape[3]) % Shape[2], n % Shape[3] >>

FlatOf(idx) == (idx[1] * Shape[2] + idx[2]) * Shape[3] + idx[3]

\* The boundary test with the E components tested at the lower edge as well.
IsBoundaryLower(c, idx) ==
    CASE c \in {"ex", "hx"} -> idx[2] = 0 \/ idx[3] = 0
      [] c \in {"ey", "hy"} -> idx[3] = 0 \/ idx[1] = 0
      [] c \in {"ez", "hz"} -> idx[1] = 0 \/ idx[2] = 0

\* The boundary test of init_material_<c>.
IsBoundary(c, idx) ==
    CASE c = "ex" -> idx[2] = Shape[2] - 1 \/ idx[3] = Shape[3] - 1
      [] c = "ey" -> idx[3] = Shape[3] - 1 \/ idx[1] = Shape[1] - 1
      [] c = "ez" -> idx[1] = Shape[1] - 1 \/ idx[2] = Shape[2] - 1
      [] c = "hx" -> idx[2] = 0 \/ idx[3] = 0
      [] c = "hy" -> idx[3] = 0 \/ idx[1] = 0
      [] c = "hz" -> idx[1] = 0 \/ idx[2] = 0

\* update_ex reading Ey, an array of its own phase, in place of Hz.
ArgsSamePhase(c) ==
    CASE c = "ex" -> [a |-> "ey", b |-> "hy", d1 |-> 2, d2 |-> 3]
      [] c = "ey" -> [a |-> "hx", b |-> "hz", d1 |-> 3, d2 |-> 1]
      [] c = "ez" -> [a |-> "hy", b |-> "hx", d1 |-> 1, d2 |-> 2]
      [] c = "hx" -> [a |-> "ez", b |-> "ey", d1 |-> 2, d2 |-> 3]
      [] c = "hy" -> [a |-> "ex", b |-> "ez", d1 |-> 3, d2 |-> 1]
      [] c = "hz" -> [a |-> "ey", b |-> "ex", d1 |-> 1, d2 |-> 2]

\* update_ex and update_hx passing their two partners in the other order.
ArgsSwapped(c) ==
    CASE c = "ex" -> [a |-> "hy", b |-> "hz", d1 |-> 2, d2 |-> 3]
      [] c = "ey" -> [a |-> "hx", b |-> "hz", d1 |-> 3, d2 |-> 1]
      [] c = "ez" -> [a |-> "hy", b |-> "hx", d1 |-> 1, d2 |-> 2]
      [] c = "hx" -> [a |-> "ey", b |-> "ez", d1 |-> 2, d2 |-> 3]
      [] c = "hy" -> [a |-> "ex", b |-> "ez", d1 |-> 3, d2 |-> 1]
      [] c = "hz" -> [a |-> "ey", b |-> "ex", d1 |-> 1, d2 |-> 2]

\* The arguments update_<c> passes to every rule: the two curl partners and
\* the axes (1 = x, 2 = y, 3 = z) of the two spacings.
Args(c) ==
    CASE c = "ex" -> [a |-> "hz", b |-> "hy", d1 |-> 2, d2 |-> 3]
      [] c = "ey" -> [a |-> "hx", b |-> "hz", d1 |-> 3, d2 |-> 1]
      [] c = "ez" -> [a |-> "hy", b |-> "hx", d1 |-> 1, d2 |-> 2]
      [] c = "hx" -> [a |-> "ez", b |-> "ey", d1 |-> 2, d2 |-> 3]
      [] c = "hy" -> [a |-> "ex", b |-> "ez", d1 |-> 3, d2 |-> 1]
      [] c = "hz" -> [a |-> "ey", b |-> "ex", d1 |-> 1, d2 |-> 2]

\* The components whose init_material_<c> thread init_material starts.
MatComps(v) ==
    CASE v = "FDTD" -> {"ex", "ey", "ez", "hx", "hy", "hz"}
      [] v = "TEx"  -> {"ey", "ez", "hx"}
      [] v = "TEy"  -> {"ez", "ex", "hy"}
      [] v = "TEz"  -> {"ex", "ey", "hz"}
      [] v = "TMx"  -> {"hy", "hz", "ex"}
      [] v = "TMy"  -> {"hz", "hx", "ey"}
      [] v = "TMz"  -> {"hx", "hy", "ez"}
      [] v = "TEMx" -> {"ey", "hz"}
      [] v = "TEMy" -> {"ez", "hx"}
      [] v = "TEMz" -> {"ex", "hy"}

\* Every class injecting sources into all six components.
SrcCompsFull(v) == Comps

\* The components whose init_source_<c> thread init_source starts.
SrcComps(v) ==
    CASE v = "FDTD" -> {"ex", "ey", "ez", "hx", "hy", "hz"}
      [] v = "TEx"  -> {"ey", "ez", "hx"}
      [] v = "TEy"  -> {"ez", "ex", "hy"}
      [] v = "TEz"  -> {"ex", "ey", "hz"}
      [] v = "TMx"  -> {"hy", "hz", "ex"}
      [] v = "TMy"  -> {"hz", "hx", "ey"}
      [] v = "TMz"  -> {"hx", "hy", "ez"}
      [] v = "TEMx" -> {"ey", "hz"}
      [] v = "TEMy" -> {"ez", "hx"}
      [] v = "TEMz" -> {"ex", "hy"}

\* The components step() updates in its first phase.
EComps(v) ==
    CASE v = "FDTD" -> {"ex", "ey", "ez"}
      [] v = "TEx"  -> {"ey", "ez"}
      [] v = "TEy"  -> {"ez", "ex"}
      [] v = "TEz"  -> {"ex", "ey"}
      [] v = "TMx"  -> {"ex"}
      [] v = "TMy"  -> {"ey"}
      [] v = "TMz"  -> {"ez"}
      [] v = "TEMx" -> {"ey"}
      [] v = "TEMy" -> {"ez"}
      [] v = "TEMz" -> {"ex"}

\* The components step() updates in its second phase.
HComps(v) ==
    CASE v = "FDTD" -> {"hx", "hy", "hz"}
      [] v = "TEx"  -> {"hx"}
      [] v = "TEy"  -> {"hy"}
      [] v = "TEz"  -> {"hz"}
      [] v = "TMx"  -> {"hy", "hz"}
      [] v = "TMy"  -> {"hz", "hx"}
      [] v = "TMz"  -> {"hx", "hy"}
      [] v = "TEMx" -> {"hz"}
      [] v = "TEMy" -> {"hx"}
      [] v = "TEMz" -> {"hy"}

\* The amount each phase of step() adds to time_step.n, in half units.
PhaseInc(v) == IF v \in {"TEMx", "TEMy", "TEMz"} THEN TEM_INC ELSE HALF

\* time_step.t after the first phase: "t = n * dt" in every class.
TimeAfterE(v, n, t) == n * Dt

\* time_step.t after the second phase: "t = n * dt", but "t += dt" in TEzFDTD.
TimeAfterH(v, n, t) == IF v = "TEz" THEN t + 2 * Dt ELSE n * Dt

\* ------------------------------------------------- collaborators (contracts)

\* What space.get_material_<c>_storage() holds before classification: an
\* entry that is no Update Rule.
NoRule == [kind |-> "none", over |-> << >>]

\* Dummy<C>(idx, 1): the boundary stub.
DummyRule == [kind |-> "dummy", over |-> << >>]

\* material.get_pointwise_material_<c>(idx, co): the rule of a standard
\* material law.
MaterialRule == [kind |-> "diel", over |-> << >>]

\* The source descriptors a src_list is drawn from.
Sources == {"A", "B"}

\* The cell of an E component that the interior H rules next to it read.
UnitCell(c) ==
    CASE c = "ex" -> <<1, 0, 0>>
      [] c = "ey" -> <<0, 1, 0>>
      [] c = "ez" -> <<0, 0, 1>>

\* The cells of component c that source s overlays: both sources sit on the
\* same interior cell of each E component; B also covers a boundary cell of
\* each H component.
SrcCells(s, c) ==
    IF IsE(c) THEN { UnitCell(c) }
    ELSE IF s = "B" THEN { <<0, 0, 0>> } ELSE {}

\* so.set_pointwise_source_<c>(material_c, space): the overlay wraps the rule
\* already stored at each cell it covers.
Overlay(s, c, grid) ==
    [idx \in Cells |->
        IF idx \in SrcCells(s, c)
        THEN [grid[idx] EXCEPT !.over = Append(@, s)]
        ELSE grid[idx]]

\* The amplitude source A adds to a sample of component c.
Amp(c) ==
    CASE c \in {"ex", "hx"} -> 1
      [] c \in {"ey", "hy"} -> 2
      [] c \in {"ez", "hz"} -> 3

\* The excitation a source applies after the wrapped rule has run: A adds its
\* amplitude, B overwrites the sample.
Excite(s, c, x) == IF s = "A" THEN x + Amp(c) ELSE 1

RECURSIVE ExciteAll(_, _, _)
ExciteAll(over, c, x) ==
    IF over = << >> THEN x
    ELSE ExciteAll(Tail(over), c, Excite(Head(over), c, x))

Shift(idx, axis, by) == [idx EXCEPT ![axis] = @ + by]

\* The curl term a standard rule computes at idx from the partner arrays A, B
\* and the spacings along the axes d1, d2 it is passed: forward differences
\* for an E rule, backward differences for an H rule, with unit coefficients.
CurlOf(e, A, B, d1, d2, idx) ==
    IF e
    THEN (A[Shift(idx, d1, 1)] - A[idx]) - (B[Shift(idx, d2, 1)] - B[idx])
    ELSE 0 - ((A[idx] - A[Shift(idx, d1, -1)]) - (B[idx] - B[Shift(idx, d2, -1)]))

\* The curl term of component c at idx, with the arguments update_<c> passes.
Curl(c, idx, F) ==
    LET g == Args(c) IN CurlOf(IsE(c), F[g.a], F[g.b], g.d1, g.d2, idx)

\* A boundary stub whose update adds to the sample.
RuleValueStubAdds(rule, c, idx, F) ==
    LET base == IF rule.kind = "diel" THEN F[c][idx] + Curl(c, idx, F)
                ELSE F[c][idx] + 1
    IN  ExciteAll(rule.over, c, base)

\* rule.update(field_c, a, b, dt, d1, d2): the new sample at idx.  A stub
\* leaves the sample, a standard rule adds the curl term, every overlay then
\* adds its excitation.
RuleValue(rule, c, idx, F) ==
    LET base == IF rule.kind = "diel" THEN F[c][idx] + Curl(c, idx, F)
                ELSE F[c][idx]
    IN  ExciteAll(rule.over, c, base)

\* ---------------------------------------------------------------- the state

VARIABLES
    variant,    \* the class of the engine under construction
    srcs,       \* self.src_list
    gap,        \* the indices whose coordinates no geometric object covers
    pc,         \* where the constructing / calling thread is
    th,         \* the worker threads: state and loop position
    lock,       \* self.lock_<c>: the thread holding it, or Unlocked
    material,   \* self.material_<c>
    assigned,   \* how often each entry of self.material_<c> was assigned
    field,      \* self.ex .. self.hz
    nH,         \* self.time_step.n, in half units
    tH,         \* self.time_step.t, in half units
    steps,      \* completed step() calls
    passes,     \* completed update_<c> passes
    direct,     \* update_<c> calls the caller made itself
    tpc,        \* tests/pw_zero_cmplx_test.py: where the test case is
    sampleCmplx,\* the rule under test: its component and the index it is bound to
    cmplxA,     \* the array handed to update as the field
    cmplxB,     \* the arrays handed to update as the partners
    cmplxC,
    copyA,      \* the expected array
    heap,       \* the geometry and source objects, by identity
    geom_list,  \* the caller's geometry list: the identities of its elements
    src_list,   \* the caller's source list
    self_geom_list, \* self.geom_list
    self_src_list,  \* self.src_list
    cpc,        \* where the head of __init__ (lines 38-52) is
    fig_id,     \* self.fig_id
    displays,   \* the figure ids of the display threads started, in order
    raised,     \* the exception the last show request ended with, if any
    request,    \* the component and axis of the last show request
    showCalls   \* show requests made

\* The state of the engine, and the state of the unit test of the zero rules.
engine == << variant, srcs, gap, pc, th, lock, material, assigned, field,
             nH, tH, steps, passes, direct >>

test == << tpc, sampleCmplx, cmplxA, cmplxB, cmplxC, copyA >>

\* The caller's lists, the engine's lists and the objects in them.
lists == << heap, geom_list, src_list, self_geom_list, self_src_list, cpc >>

\* The figure counter of the engine and what its show methods did.
show == << fig_id, displays, raised, request, showCalls >>

vars == << variant, srcs, gap, pc, th, lock, material, assigned, field,
           nH, tH, steps, passes, direct,
           tpc, sampleCmplx, cmplxA, cmplxB, cmplxC, copyA,
           heap, geom_list, src_list, self_geom_list, self_src_list, cpc,
           fig_id, displays, raised, request, showCalls >>

Jobs == {"mat", "src", "upd"}

\* The holder field of a threading.Lock() no thread holds.
Unlocked == <<"no", "thread">>

\* The threads of the program: one per job and component, write_ex, and for
\* each component a second thread of the caller that runs update_<c> too and
\* a thread that reads the array for display or export.
Threads ==
    (Jobs \X Comps) \cup { <<"write", "ex">> } \cup ({"upd2", "read"} \X Comps)

Off == [st |-> "off", cur |-> 0]

Active(t) == th[t].st \in {"ready", "run"}

\* A thread that has ended, normally or by an uncaught exception: what
\* Thread.join() waits for.
Terminated(t) == th[t].st \in {"done", "dead"}

\* The source lists an engine is constructed with.
SrcLists == { << >>, <<"A", "B">>, <<"B", "A">> }

\* The geometries an engine is constructed with, each given by the indices
\* whose coordinates none of its objects covers.
GapChoices == { {}, { <<0, 0, 0>> }, { <<1, 1, 1>> } }

\* The indices of the test's arrays.
TestCells == (0 .. TestLen - 1) \X {0} \X {0}

\* Complex samples, as pairs of real and imaginary part.
ZeroCmplx == <<0, 0>>

Samples == { <<0, 0>>, <<1, 0>>, <<0, 1>> }

\* An array with the same sample everywhere.
Filled(x) == [i \in TestCells |-> x]

\* No test case is running.
TestOff ==
    /\ tpc = "off"
    /\ sampleCmplx = [comp |-> "ex", idx |-> <<0, 0, 0>>]
    /\ cmplxA = Filled(ZeroCmplx)
    /\ cmplxB = Filled(ZeroCmplx)
    /\ cmplxC = Filled(ZeroCmplx)
    /\ copyA = Filled(ZeroCmplx)

\* The engine after its storage has been allocated.
EngineInit ==
    /\ variant \in Variants
    /\ srcs \in SrcLists
    /\ gap \in GapChoices
    /\ pc = "ctor"
    /\ th = [t \in Threads |-> Off]
    /\ lock = [c \in Comps |-> Unlocked]
    /\ material = [c \in Comps |-> [idx \in Cells |-> NoRule]]
    /\ assigned = [c \in Comps |-> [idx \in Cells |-> 0]]
    /\ field = [c \in Comps |-> [idx \in Cells |-> 0]]
    /\ nH = 0
    /\ tH = 0
    /\ steps = 0
    /\ passes = [c \in Comps |-> 0]
    /\ direct = 0

\* Object identities: those of the caller's elements, then those of copies.
Ids == 1 .. 4 * MaxList

\* The slot of an identity no object has yet.
NoObject == [val |-> 0, inited |-> FALSE, live |-> FALSE]

\* The lists are not looked at.
ListsOff ==
    /\ heap = [a \in Ids |-> NoObject]
    /\ geom_list = << >>
    /\ src_list = << >>
    /\ self_geom_list = << >>
    /\ self_src_list = << >>
    /\ cpc = "off"

\* What may be passed as the axis of a show request: an instance of
\* constants.X, constants.Y or constants.Z, or something that is none of them.
Axes == {"X", "Y", "Z", "other"}

NoRequest == [comp |-> "none", axis |-> "none"]

\* self.fig_id = 0, and no show request made yet.
ShowOff ==
    /\ fig_id = 0
    /\ displays = << >>
    /\ raised = "none"
    /\ request = NoRequest
    /\ showCalls = 0

Init == EngineInit /\ TestOff /\ ListsOff /\ ShowOff

\* "for thread in threads: thread.start()" for one job and a set of components.
Fork(job, cs) ==
    [t \in Threads |->
        IF t[1] = job /\ t[2] \in cs THEN [st |-> "ready", cur |-> 0] ELSE th[t]]


\* ------------------------------------------------------------ construction

\* The rule init_material_<c> stores at idx when classification succeeds.
ClassifyRule(c, idx) == IF IsBoundary(c, idx) THEN DummyRule ELSE MaterialRule

\* The position in ndindex order at which the loop of init_material_<c>
\* raises, NCells when it does not: geom_tree.object_of_point(co) finds no
\* covering object for the coordinates of the indices in gap, so the first
\* interior cell among them ends the loop.
FirstFail(c) ==
    LET bad == { FlatOf(idx) : idx \in { g \in gap : ~IsBoundary(c, g) } }
    IN  IF bad = {} THEN NCells
        ELSE CHOOSE n \in bad : \A m \in bad : n <= m

\* The loop of init_material_<c> stopping one index short.
MatLoopRangeShort(c) == 0 .. FirstFail(c) - 2

\* The positions the loop of init_material_<c> assigns: every index in order,
\* up to the one where it raises.
MatLoopRange(c) == 0 .. FirstFail(c) - 1

\* self.material_<c> after the loop of init_material_<c> has run on grid.
MatPassGrid(c, grid) ==
    LET range == MatLoopRange(c)
    IN  [idx \in Cells |->
            IF FlatOf(idx) \in range THEN ClassifyRule(c, idx) ELSE grid[idx]]

\* lock.acquire() going ahead whether or not the lock is held.
LockFreeAlways(c) == TRUE

\* self.lock_<c>.acquire() blocks until the lock, a threading.Lock, is free.
LockFree(c) == lock[c] = Unlocked

\* __init__ calls init_material(): the threads are started.
InitMaterialFork ==
    /\ pc = "ctor"
    /\ th' = Fork("mat", MatComps(variant))
    /\ pc' = "mat"
    /\ UNCHANGED << test, lists, show, variant, srcs, gap, lock, material, assigned, field,
                    nH, tH, steps, passes, direct >>

\* init_material_<c>: self.lock_<c>.acquire().
MatAcquire(c) ==
    /\ th[<<"mat", c>>].st = "ready"
    /\ LockFree(c)
    /\ lock' = [lock EXCEPT ![c] = <<"mat", c>>]
    /\ th' = [th EXCEPT ![<<"mat", c>>].st = "run"]
    /\ UNCHANGED << test, lists, show, variant, srcs, gap, pc, material, assigned, field,
                    nH, tH, steps, passes, direct >>

\* init_material_<c>: the classification loop and the release after it.  An
\* exception raised in the loop ends the thread before the release.
MatPass(c) ==
    /\ th[<<"mat", c>>].st = "run"
    /\ material' = [material EXCEPT ![c] = MatPassGrid(c, @)]
    /\ assigned' = [assigned EXCEPT ![c] =
            LET range == MatLoopRange(c)
            IN  [idx \in Cells |->
                    IF FlatOf(idx) \in range THEN @[idx] + 1 ELSE @[idx]]]
    /\ IF FirstFail(c) = NCells
       THEN /\ th' = [th EXCEPT ![<<"mat", c>>].st = "done"]
            /\ lock' = [lock EXCEPT ![c] = Unlocked]
       ELSE /\ th' = [th EXCEPT ![<<"mat", c>>].st = "dead"]
            /\ UNCHANGED lock
    /\ UNCHANGED << test, lists, show, variant, srcs, gap, pc, field, nH, tH, steps, passes, direct >>

\* init_material returning without waiting for its threads.
MatJoinedEarly == TRUE

\* "for thread in threads: thread.join()" of init_material.
MatJoined == \A c \in MatComps(variant) : Terminated(<<"mat", c>>)

\* init_material() returns and __init__ calls init_source(): the threads are
\* started.
InitSourceFork ==
    /\ pc = "mat"
    /\ MatJoined
    /\ th' = Fork("src", SrcComps(variant))
    /\ pc' = "src"
    /\ UNCHANGED << test, lists, show, variant, srcs, gap, lock, material, assigned, field,
                    nH, tH, steps, passes, direct >>

\* The loop of init_source_<c> walking the list from its end.
SourceAtReversed(k) == srcs[Len(srcs) + 1 - k]

\* The source the k-th iteration of "for so in self.src_list" handles.
SourceAt(k) == srcs[k]

\* init_source_<c>: one iteration of the loop; the thread ends with the last.
SrcStep(c) ==
    LET t == <<"src", c>> IN
    /\ th[t].st = "ready"
    /\ IF th[t].cur < Len(srcs)
       THEN /\ material' = [material EXCEPT
                    ![c] = Overlay(SourceAt(th[t].cur + 1), c, @)]
            /\ th' = [th EXCEPT ![t] =
                    [st  |-> IF th[t].cur + 1 = Len(srcs) THEN "done" ELSE "ready",
                     cur |-> th[t].cur + 1]]
       ELSE /\ th' = [th EXCEPT ![t].st = "done"]
            /\ UNCHANGED material
    /\ UNCHANGED << test, lists, show, variant, srcs, gap, pc, lock, assigned, field,
                    nH, tH, steps, passes, direct >>

\* init_source returning without waiting for its threads.
SrcJoinedEarly == TRUE

\* "for thread in threads: thread.join()" of init_source.
SrcJoined == \A c \in SrcComps(variant) : Terminated(<<"src", c>>)

\* init_source() and with it __init__ return.
InitSourceJoin ==
    /\ pc = "src"
    /\ SrcJoined
    /\ pc' = "idle"
    /\ UNCHANGED << test, lists, show, variant, srcs, gap, th, lock, material, assigned, field,
                    nH, tH, steps, passes, direct >>

\* ----------------------------------------------------------------- stepping

\* update_<c> run by thread t: self.lock_<c>.acquire().
UpdAcquireBy(t) ==
    LET c == t[2] IN
    /\ th[t].st = "ready"
    /\ LockFree(c)
    /\ lock' = [lock EXCEPT ![c] = t]
    /\ th' = [th EXCEPT ![t].st = "run"]
    /\ UNCHANGED << test, lists, show, variant, srcs, gap, pc, material, assigned, field,
                    nH, tH, steps, passes, direct >>

\* An iteration of update_<c> whose rule stores its result in the first
\* partner array instead of the array of c.
UpdCellByWritesPartner(t) ==
    LET c   == t[2]
        idx == CellAt(th[t].cur)
    IN
    /\ th[t].st = "run"
    /\ th[t].cur < NCells
    /\ IF material[c][idx].kind = "none"
       THEN /\ th' = [th EXCEPT ![t].st = "dead"]
            /\ UNCHANGED field
       ELSE /\ field' = [field EXCEPT
                    ![Args(c).a][idx] = RuleValue(material[c][idx], c, idx, field)]
            /\ th' = [th EXCEPT ![t].cur = @ + 1]
    /\ UNCHANGED << test, lists, show, variant, srcs, gap, pc, lock, material, assigned,
                    nH, tH, steps, passes, direct >>

\* update_<c> run by thread t: one iteration of "for mo in
\* self.material_<c>.flat".  An entry that is no rule has no update: the call
\* raises and ends the thread.
UpdCellBy(t) ==
    LET c   == t[2]
        idx == CellAt(th[t].cur)
    IN
    /\ th[t].st = "run"
    /\ th[t].cur < NCells
    /\ IF material[c][idx].kind = "none"
       THEN /\ th' = [th EXCEPT ![t].st = "dead"]
            /\ UNCHANGED field
       ELSE /\ field' = [field EXCEPT
                    ![c][idx] = RuleValue(material[c][idx], c, idx, field)]
            /\ th' = [th EXCEPT ![t].cur = @ + 1]
    /\ UNCHANGED << test, lists, show, variant, srcs, gap, pc, lock, material, assigned,
                    nH, tH, steps, passes, direct >>

\* update_<c> returning after its loop with the lock still held.
UpdReleaseByKeepsLock(t) ==
    LET c == t[2] IN
    /\ th[t].st = "run"
    /\ th[t].cur = NCells
    /\ th' = [th EXCEPT ![t].st = "done"]
    /\ passes' = [passes EXCEPT ![c] = @ + 1]
    /\ UNCHANGED << test, lists, show, variant, srcs, gap, pc, lock, material, assigned,
                    field, nH, tH, steps, direct >>

\* update_<c> run by thread t: self.lock_<c>.release() after the loop.
UpdReleaseBy(t) ==
    LET c == t[2] IN
    /\ th[t].st = "run"
    /\ th[t].cur = NCells
    /\ th' = [th EXCEPT ![t].st = "done"]
    /\ lock' = [lock EXCEPT ![c] = Unlocked]
    /\ passes' = [passes EXCEPT ![c] = @ + 1]
    /\ UNCHANGED << test, lists, show, variant, srcs, gap, pc, material, assigned, field,
                    nH, tH, steps, direct >>

\* The three steps of update_<c> in the thread that step() starts for it (or
\* in the caller's own thread).
UpdAcquire(c) == UpdAcquireBy(<<"upd", c>>)

UpdCell(c) == UpdCellBy(<<"upd", c>>)

UpdRelease(c) == UpdReleaseBy(<<"upd", c>>)

\* The caller calls step(): the first phase starts.  In FDTD the threads
\* write_hx, write_hy and write_hz started with it have an empty body.
StepForkUpTo(calls) ==
    /\ pc = "idle"
    /\ steps + direct < calls
    /\ th' = Fork("upd", EComps(variant))
    /\ pc' = "E"
    /\ UNCHANGED << test, lists, show, variant, srcs, gap, lock, material, assigned, field,
                    nH, tH, steps, passes, direct >>

StepFork == StepForkUpTo(MaxCalls)

\* The first phase of step() not joined before the second starts.
EJoinedEarly == TRUE

\* The join that ends the first phase of step().
EJoined == \A c \in EComps(variant) : Terminated(<<"upd", c>>)

\* The threads the second phase of step() starts: in FDTD also write_ex
\* (write_ey and write_ez have an empty body).
HFork ==
    [t \in Threads |->
        IF \/ t[1] = "upd" /\ t[2] \in HComps(variant)
           \/ t = <<"write", "ex">> /\ variant = "FDTD"
        THEN [st |-> "ready", cur |-> 0]
        ELSE th[t]]

\* step(): the first phase is joined, the counter advances, the second phase
\* starts.  (Where a class runs a phase by a plain call instead of a thread,
\* the call returning is the join; such a call never raises here, since a pass
\* over a component whose classification failed blocks on the lock the failed
\* thread still holds.)
StepEJoin ==
    /\ pc = "E"
    /\ EJoined
    /\ nH' = nH + PhaseInc(variant)
    /\ tH' = TimeAfterE(variant, nH', tH)
    /\ th' = HFork
    /\ pc' = "H"
    /\ UNCHANGED << test, lists, show, variant, srcs, gap, lock, material, assigned, field,
                    steps, passes, direct >>

\* write_ex(): write_hdf5 reads self.ex; nothing of the engine changes.
WriteEx ==
    /\ th[<<"write", "ex">>].st = "ready"
    /\ th' = [th EXCEPT ![<<"write", "ex">>].st = "done"]
    /\ UNCHANGED << test, lists, show, variant, srcs, gap, pc, lock, material, assigned, field,
                    nH, tH, steps, passes, direct >>

\* The join that ends the second phase of step().
HJoined ==
    /\ \A c \in HComps(variant) : Terminated(<<"upd", c>>)
    /\ variant = "FDTD" => Terminated(<<"write", "ex">>)

\* step(): the second phase is joined, the counter advances, step() returns.
StepHJoin ==
    /\ pc = "H"
    /\ HJoined
    /\ nH' = nH + PhaseInc(variant)
    /\ tH' = TimeAfterH(variant, nH', tH)
    /\ steps' = steps + 1
    /\ pc' = "idle"
    /\ UNCHANGED << test, lists, show, variant, srcs, gap, th, lock, material, assigned, field,
                    passes, direct >>

Next ==
    \/ InitMaterialFork
    \/ \E c \in Comps : MatAcquire(c)
    \/ \E c \in Comps : MatPass(c)
    \/ InitSourceFork
    \/ \E c \in Comps : SrcStep(c)
    \/ InitSourceJoin
    \/ StepFork
    \/ \E c \in Comps : UpdAcquire(c)
    \/ \E c \in Comps : UpdCell(c)
    \/ \E c \in Comps : UpdRelease(c)
    \/ StepEJoin
    \/ WriteEx
    \/ StepHJoin

Spec == Init /\ [][Next]_vars

\* The threads a step() call starts are scheduled until they end, and the
\* thread inside step() goes on once the threads it joins have ended.  The
\* caller is free to make no further call.
StepFairness ==
    /\ \A c \in Comps : WF_vars(UpdAcquire(c))
    /\ \A c \in Comps : WF_vars(UpdCell(c))
    /\ \A c \in Comps : WF_vars(UpdRelease(c))
    /\ WF_vars(WriteEx)
    /\ WF_vars(StepEJoin)
    /\ WF_vars(StepHJoin)

\* The engines of every class whose geometry covers every cell, so that each
\* classification pass finds a rule for every cell and runs to its end, built
\* with the two sources.
InitCovered == Init /\ gap = {} /\ srcs = <<"A", "B">>

SpecFair == InitCovered /\ [][Next]_vars /\ StepFairness


\* The constructor has returned: the caller holds the engine.
ConstructorReturned == pc \in {"idle", "E", "H", "direct"}

\* ------------------------------------------------- the public update methods

\* update_<c> is an ordinary public method: the caller calls it itself, in its
\* own thread, on a constructed engine.
DirectCall(c) ==
    /\ pc = "idle"
    /\ steps + direct < MaxCalls
    /\ th' = Fork("upd", {c})
    /\ pc' = "direct"
    /\ UNCHANGED << test, lists, show, variant, srcs, gap, lock, material, assigned, field,
                    nH, tH, steps, passes, direct >>

\* The caller's update_<c>() call has ended (returned, or raised).
DirectReturn ==
    /\ pc = "direct"
    /\ \A c \in Comps : ~Active(<<"upd", c>>)
    /\ pc' = "idle"
    /\ direct' = direct + 1
    /\ UNCHANGED << test, lists, show, variant, srcs, gap, th, lock, material, assigned, field,
                    nH, tH, steps, passes >>

NextAPI ==
    \/ Next
    \/ \E c \in Comps : DirectCall(c)
    \/ DirectReturn

\* The engine with a caller that uses step() and the update_<c> methods.
SpecAPI == Init /\ [][NextAPI]_vars


\* ------------------------------------------- update_<c> called by two threads

\* Two threads of the caller call update_<c> of the same component of a
\* constructed engine at the same time: two of the calls the caller may make.
OverlapCall(c) ==
    /\ pc = "idle"
    /\ steps + direct + 2 <= MaxCalls
    /\ th' = [t \in Threads |->
                IF t \in {<<"upd", c>>, <<"upd2", c>>}
                THEN [st |-> "ready", cur |-> 0] ELSE th[t]]
    /\ pc' = "direct"
    /\ UNCHANGED << test, lists, show, variant, srcs, gap, lock, material, assigned, field,
                    nH, tH, steps, passes, direct >>

\* The three steps of update_<c> in the second thread.
Upd2Acquire(c) == UpdAcquireBy(<<"upd2", c>>)

Upd2Cell(c) == UpdCellBy(<<"upd2", c>>)

Upd2Release(c) == UpdReleaseBy(<<"upd2", c>>)

\* Both calls have ended (returned, or raised).
OverlapReturn ==
    /\ pc = "direct"
    /\ \E c \in Comps : th[<<"upd2", c>>].st # "off"
    /\ \A c \in Comps : ~Active(<<"upd", c>>) /\ ~Active(<<"upd2", c>>)
    /\ pc' = "idle"
    /\ direct' = direct + 2
    /\ UNCHANGED << test, lists, show, variant, srcs, gap, th, lock, material, assigned, field,
                    nH, tH, steps, passes >>

NextOverlap ==
    \/ InitMaterialFork
    \/ \E c \in Comps : MatAcquire(c)
    \/ \E c \in Comps : MatPass(c)
    \/ InitSourceFork
    \/ \E c \in Comps : SrcStep(c)
    \/ InitSourceJoin
    \/ \E c \in Comps : OverlapCall(c)
    \/ \E c \in Comps : UpdAcquire(c)
    \/ \E c \in Comps : UpdCell(c)
    \/ \E c \in Comps : UpdRelease(c)
    \/ \E c \in Comps : Upd2Acquire(c)
    \/ \E c \in Comps : Upd2Cell(c)
    \/ \E c \in Comps : Upd2Release(c)
    \/ OverlapReturn

\* The engine with a caller whose two threads call update_<c> together.
SpecOverlap == Init /\ [][NextOverlap]_vars


\* ------------------------------------------------- display and export readers

\* A thread other than the one inside step() reads self.<c>: the display
\* thread that show_<c> (through _show) or show_line_ex started on a view of
\* the array, or a call of write_ex or snapshot_ex.  None of these methods
\* touches self.lock_<c>, so the read waits for nothing.  The thread's counter
\* is the number of reads made; a read is one of the caller's calls.
Read(c) ==
    /\ ConstructorReturned
    /\ steps + direct + (IF pc = "idle" THEN 0 ELSE 1) < MaxCalls
    /\ th' = [th EXCEPT ![<<"read", c>>] = [st |-> "done", cur |-> @.cur + 1]]
    /\ direct' = direct + 1
    /\ UNCHANGED << test, lists, show, variant, srcs, gap, pc, lock, material, assigned, field,
                    nH, tH, steps, passes >>

NextRead ==
    \/ Next
    \/ \E c \in Comps : Read(c)

\* The engine with a caller that steps it and reads its arrays from another
\* thread.
SpecRead == Init /\ [][NextRead]_vars


\* ------------------------------------- the scenario of the one-dimensional classes

\* A one-dimensional engine on a uniform medium, without sources.
InitScenario ==
    /\ Init
    /\ variant \in {"TEMx", "TEMy", "TEMz"}
    /\ srcs = << >>
    /\ gap = {}

\* The caller calls step(), ScenarioCalls times in all.
ScenarioStepFork == StepForkUpTo(ScenarioCalls)

NextScenario ==
    \/ InitMaterialFork
    \/ \E c \in Comps : MatAcquire(c)
    \/ \E c \in Comps : MatPass(c)
    \/ InitSourceFork
    \/ \E c \in Comps : SrcStep(c)
    \/ InitSourceJoin
    \/ ScenarioStepFork
    \/ \E c \in Comps : UpdAcquire(c)
    \/ \E c \in Comps : UpdCell(c)
    \/ \E c \in Comps : UpdRelease(c)
    \/ StepEJoin
    \/ StepHJoin

SpecScenario == InitScenario /\ [][NextScenario]_vars

\* ------------------------------------------ the unit test of the zero rules

\* A zero rule that leaves the array as it is.
ZeroUpdateNoop(rule, A, B, C) == A

\* Zero<C>Cmplx(idx).update(A, B, C, dt, d1, d2), for each of the six
\* components: the array A it leaves.
ZeroUpdate(rule, A, B, C) == [A EXCEPT ![rule.idx] = ZeroCmplx]

\* setUp and the first line of a test method: the index, a random complex
\* array, two partner arrays of arbitrary content ("empty"), the expected
\* array (a copy with the sample at the index zeroed) and the rule bound to
\* the index.  No engine takes part in the test.
InitZeroTest ==
    /\ EngineInit
    /\ ShowOff
    /\ variant = "FDTD" /\ srcs = << >> /\ gap = {}
    /\ tpc = "setUp"
    /\ sampleCmplx \in [comp : Comps, idx : TestCells]
    /\ cmplxA \in [TestCells -> Samples]
    /\ cmplxB \in { Filled(ZeroCmplx), Filled(<<1, 0>>) }
    /\ cmplxC \in { Filled(ZeroCmplx), Filled(<<0, 1>>) }
    /\ copyA = [cmplxA EXCEPT ![sampleCmplx.idx] = ZeroCmplx]
    /\ ListsOff

\* sampleCmplx.update(self.cmplxA, self.cmplxB, self.cmplxC, 1, 1, 1).
TestUpdate ==
    /\ tpc = "setUp"
    /\ cmplxA' = ZeroUpdate(sampleCmplx, cmplxA, cmplxB, cmplxC)
    /\ tpc' = "updated"
    /\ UNCHANGED << engine, lists, show, sampleCmplx, cmplxB, cmplxC, copyA >>

\* self.assertEqual((self.cmplxA == self.copyA).all(), True).
TestAssert ==
    /\ tpc = "updated"
    /\ tpc' = IF \A i \in TestCells : cmplxA[i] = copyA[i] THEN "ok" ELSE "failed"
    /\ UNCHANGED << engine, lists, show, sampleCmplx, cmplxA, cmplxB, cmplxC, copyA >>

NextZeroTest == TestUpdate \/ TestAssert

\* The six test cases of tests/pw_zero_cmplx_test.py.
SpecZeroTest == InitZeroTest /\ [][NextZeroTest]_vars


\* ------------------------------------- the lists handed to the constructor

\* A copy that is a new list of the same element objects.
CopiedIdsShared(list, base) == list

\* deepcopy(list): the identities of the elements of the copy, each a new
\* object, taken from base on.
CopiedIds(list, base) == [i \in 1 .. Len(list) |-> base + i]

\* The objects after deepcopy(list) has made its copies at the identities
\* from base on: each new object has the content of the element it copies.
HeapWithCopies(list, base) ==
    [a \in Ids |->
        IF a \in base + 1 .. base + Len(list) THEN heap[list[a - base]]
        ELSE heap[a]]

\* The objects after "for x in list: x.init(...)".
HeapInited(list) ==
    [a \in Ids |->
        IF \E i \in 1 .. Len(list) : list[i] = a
        THEN [heap[a] EXCEPT !.inited = TRUE]
        ELSE heap[a]]

\* The caller has built a geometry list and a source list of objects that
\* have not been initialized, and calls the constructor.
InitLists ==
    /\ EngineInit
    /\ ShowOff
    /\ variant = "FDTD" /\ srcs = << >> /\ gap = {}
    /\ TestOff
    /\ \E ng \in 0 .. MaxList, ns \in 0 .. MaxList :
          /\ geom_list = [i \in 1 .. ng |-> i]
          /\ src_list = [i \in 1 .. ns |-> MaxList + i]
          /\ \E vals \in [(1 .. ng) \cup (MaxList + 1 .. MaxList + ns) -> {0, 1}] :
                heap = [a \in Ids |->
                          IF a \in DOMAIN vals
                          THEN [val |-> vals[a], inited |-> FALSE, live |-> TRUE]
                          ELSE NoObject]
    /\ self_geom_list = << >>
    /\ self_src_list = << >>
    /\ cpc = "geom"

\* self.geom_list = deepcopy(geom_list).
CopyGeomList ==
    /\ cpc = "geom"
    /\ self_geom_list' = CopiedIds(geom_list, 2 * MaxList)
    /\ heap' = HeapWithCopies(geom_list, 2 * MaxList)
    /\ cpc' = "geom_init"
    /\ UNCHANGED << engine, test, show, geom_list, src_list, self_src_list >>

\* for geom_obj in self.geom_list: geom_obj.init(self.space).
InitGeomObjects ==
    /\ cpc = "geom_init"
    /\ heap' = HeapInited(self_geom_list)
    /\ cpc' = "src"
    /\ UNCHANGED << engine, test, show, geom_list, src_list, self_geom_list,
                    self_src_list >>

\* self.src_list = deepcopy(src_list).
CopySrcList ==
    /\ cpc = "src"
    /\ self_src_list' = CopiedIds(src_list, 3 * MaxList)
    /\ heap' = HeapWithCopies(src_list, 3 * MaxList)
    /\ cpc' = "src_init"
    /\ UNCHANGED << engine, test, show, geom_list, src_list, self_geom_list >>

\* for so in self.src_list: so.init(self.geom_tree, self.space); the rest of
\* the constructor works on self.geom_list and self.src_list.
InitSrcObjects ==
    /\ cpc = "src_init"
    /\ heap' = HeapInited(self_src_list)
    /\ cpc' = "built"
    /\ UNCHANGED << engine, test, show, geom_list, src_list, self_geom_list,
                    self_src_list >>

\* The caller, holding the engine, changes an attribute of an element of one
\* of its own lists.
CallerSetsAttribute ==
    /\ cpc = "built"
    /\ \E a \in Ids :
          /\ \/ \E i \in 1 .. Len(geom_list) : geom_list[i] = a
             \/ \E i \in 1 .. Len(src_list) : src_list[i] = a
          /\ heap[a].val = 0
          /\ heap' = [heap EXCEPT ![a].val = 1]
    /\ UNCHANGED << engine, test, show, geom_list, src_list, self_geom_list,
                    self_src_list, cpc >>

\* The caller removes the first element of one of its own lists.
CallerRemovesElement ==
    /\ cpc = "built"
    /\ \/ /\ geom_list # << >>
          /\ geom_list' = Tail(geom_list)
          /\ UNCHANGED src_list
       \/ /\ src_list # << >>
          /\ src_list' = Tail(src_list)
          /\ UNCHANGED geom_list
    /\ UNCHANGED << engine, test, show, heap, self_geom_list, self_src_list, cpc >>

NextLists ==
    \/ CopyGeomList
    \/ InitGeomObjects
    \/ CopySrcList
    \/ InitSrcObjects
    \/ CallerSetsAttribute
    \/ CallerRemovesElement

\* The head of the constructor and a caller that goes on using its lists.
SpecLists == InitLists /\ [][NextLists]_vars


\* --------------------------------------------------------- the show methods

\* The components _show has a branch for under each axis.
AxisComps(a) ==
    CASE a = "X" -> {"ex", "hx"}
      [] a = "Y" -> {"ey", "hy"}
      [] a = "Z" -> {"ez", "hz"}
      [] OTHER  -> {}

\* How _show(component, axis, ...) ends.  The final else raises ValueError
\* for an axis that is no X, Y or Z.  Under an X, Y or Z axis a component
\* that neither inner branch matches binds neither low nor high, and
\* "extent = (low[2], high[2], ...)" raises UnboundLocalError.
ShowOutcome(c, a) ==
    IF a \notin {"X", "Y", "Z"} THEN "ValueError"
    ELSE IF c \notin AxisComps(a) THEN "UnboundLocalError"
    ELSE "none"

\* show_<c>(axis, cut) on a constructed engine, with cut inside the array:
\* _show raises, or makes ShowPlane(..., self.fig_id), adds one to self.fig_id
\* and starts the display.
Show(c, a) ==
    /\ pc = "idle"
    /\ showCalls < MaxShows
    /\ showCalls' = showCalls + 1
    /\ request' = [comp |-> c, axis |-> a]
    /\ raised' = ShowOutcome(c, a)
    /\ IF ShowOutcome(c, a) = "none"
       THEN /\ displays' = Append(displays, fig_id)
            /\ fig_id' = fig_id + 1
       ELSE UNCHANGED << fig_id, displays >>
    /\ UNCHANGED << engine, test, lists >>

NextShow ==
    \/ InitMaterialFork
    \/ \E c \in Comps : MatAcquire(c)
    \/ \E c \in Comps : MatPass(c)
    \/ InitSourceFork
    \/ \E c \in Comps : SrcStep(c)
    \/ InitSourceJoin
    \/ \E c \in Comps, a \in Axes : Show(c, a)

\* The engine constructed and then asked to show its fields.
SpecShow == InitCovered /\ [][NextShow]_vars


\* ================================================================== claims

UpdThread(c) == <<"upd", c>>

AllE == {"ex", "ey", "ez"}

AllH == {"hx", "hy", "hz"}

\* C1: in every class each phase of step() adds exactly 0.5 to time_step.n,
\* so that the counter is k after k completed step() calls (and k + 0.5
\* between the two phases of the next call).
C1_HalfUnitPerPhase ==
    /\ pc \in {"idle", "E"} => nH = 2 * steps
    /\ pc = "H" => nH = 2 * steps + 1

\* C2: in every class, after every phase of every step() call the derived
\* time is time_step.t = time_step.n * dt.
C2_TimeIsCounterTimesDt == tH = nH * Dt

\* C3: within a step() call every E pass has finished before an H pass
\* starts, every H pass of a call has finished before an E pass of the next
\* call starts; an H pass therefore runs on E arrays that the E-phase of the
\* same call has completely updated, and an E pass on H arrays as the H-phase
\* of the previous call left them.
C3_PhaseOrdering ==
    /\ \A e \in AllE, h \in AllH : ~(Active(UpdThread(e)) /\ Active(UpdThread(h)))
    /\ \A h \in AllH : Active(UpdThread(h)) =>
            /\ pc = "H"
            /\ \A e \in EComps(variant) :
                    Terminated(UpdThread(e)) /\ passes[e] = steps + 1
    /\ \A e \in AllE : Active(UpdThread(e)) =>
            /\ pc = "E"
            /\ \A h \in HComps(variant) :
                    ~Active(UpdThread(h)) /\ passes[h] = steps

\* An H pass of the second step() call of the full engine is under way, on
\* fields the earlier phases have made non-zero.
C3_Witness ==
    /\ variant = "FDTD"
    /\ steps = 1
    /\ pc = "H"
    /\ \E h \in AllH : th[UpdThread(h)].st = "run" /\ th[UpdThread(h)].cur > 0
    /\ \E e \in AllE : \E idx \in Cells : field[e][idx] # 0
    /\ \E h \in AllH : \E idx \in Cells : field[h][idx] # 0

\* C4: on a constructed engine no sequence of calls to the public operations
\* runs an update pass outside step(): an E pass runs only in the first phase
\* of a step() call, an H pass only in the second phase, after every E pass
\* of that call has completed, and none runs before source injection is done.
C4_PhasesOnlyThroughStep ==
    gap = {} =>
        \A c \in Comps : Active(UpdThread(c)) =>
            /\ \A c2 \in SrcComps(variant) : th[<<"src", c2>>].st = "done"
            /\ c \in AllE => pc = "E"
            /\ c \in AllH =>
                  /\ pc = "H"
                  /\ \A e \in EComps(variant) : passes[e] = steps + 1

AllocGrid == [idx \in Cells |-> NoRule]

HoldsOneRule(c, idx) == material[c][idx].kind # "none" /\ assigned[c][idx] = 1

C6_FailureAbortsConstruction ==
    (\E c \in Comps : th[<<"mat", c>>].st = "dead") => pc \in {"ctor", "mat"}

\* C7: the classification pass of a component has ended before the injection
\* pass of that component starts; every injection pass has ended before the
\* constructor returns, so before any update pass of a step() call.
C7_ConstructionOrdering ==
    /\ \A c \in Comps :
            th[<<"src", c>>].st # "off" =>
                Terminated(<<"mat", c>>) /\ pc \notin {"ctor", "mat"}
    /\ ConstructorReturned =>
            \A c \in SrcComps(variant) : th[<<"src", c>>].st = "done"
    /\ \A c \in Comps :
            th[UpdThread(c)].st # "off" =>
                \A c2 \in SrcComps(variant) : th[<<"src", c2>>].st = "done"

\* An injection pass is half way through its list while another has not
\* started, all classification passes having ended.
C7_Witness ==
    /\ pc = "src"
    /\ Len(srcs) = 2
    /\ \E c \in Comps : th[<<"src", c>>].st = "ready" /\ th[<<"src", c>>].cur = 1
    /\ \E c \in Comps : th[<<"src", c>>].st = "ready" /\ th[<<"src", c>>].cur = 0
    /\ \A c \in MatComps(variant) : th[<<"mat", c>>].st = "done"

RECURSIVE OverlayInOrder(_, _, _)
OverlayInOrder(list, c, grid) ==
    IF list = << >> THEN grid
    ELSE OverlayInOrder(Tail(list), c, Overlay(Head(list), c, grid))

\* C8: the injection pass of a component applies the overlay of every source
\* of src_list, once each, in the order of the list: the grid it leaves is
\* the classified grid with the overlays composed first to last, and for two
\* sources A, B it is B's overlay applied to A's overlay of that grid.
C8_InjectionInRegistrationOrder ==
    \A c \in Comps :
        th[<<"src", c>>].st = "done" =>
            LET classified == MatPassGrid(c, AllocGrid) IN
            material[c] =
                IF Len(srcs) = 2
                THEN Overlay(srcs[2], c, Overlay(srcs[1], c, classified))
                ELSE OverlayInOrder(srcs, c, classified)

\* Two sources have both been laid over the same cell of a component.
C8_Witness ==
    /\ srcs = <<"A", "B">>
    /\ \E c \in Comps :
          /\ th[<<"src", c>>].st = "done"
          /\ \E idx \in Cells : material[c][idx] = [kind |-> "diel", over |-> <<"A", "B">>]

InjectionRunning == pc = "src" \/ \E c \in Comps : Active(<<"src", c>>)

\* C9: while source injection runs (init_source and every init_source_<c>),
\* no Field Storage array and no part of the Time State changes.
C9_InjectionLeavesFieldsAndTime ==
    [][InjectionRunning => (field' = field /\ nH' = nH /\ tH' = tH)]_vars

\* Injection has returned having overlaid rules, the fields and the time
\* being as allocated.
C9_Witness ==
    /\ pc = "idle"
    /\ steps = 0
    /\ \E c \in Comps : \E idx \in Cells : material[c][idx].over # << >>
    /\ \A c \in Comps : \A idx \in Cells : field[c][idx] = 0
    /\ nH = 0 /\ tH = 0

\* C10: once the constructor has returned, no step of a step() call assigns,
\* replaces or removes an entry of a material array.
C10_StepLeavesMaterial ==
    [][ConstructorReturned => (material' = material /\ assigned' = assigned)]_vars

\* A step() call has completed and changed fields and time; the rules with
\* their overlays are in place.
C10_Witness ==
    /\ pc = "idle"
    /\ steps = MaxCalls
    /\ nH > 0
    /\ \E c \in Comps : \E idx \in Cells : field[c][idx] # 0
    /\ \E c \in Comps : \E idx \in Cells : material[c][idx].over # << >>

\* The boundary planes of the six components (index[k] of the source is
\* idx[k + 1] here; the upper edge is the extent of the array less one).
OnBoundaryPlane(c, idx) ==
    LET upper(k) == idx[k + 1] = Shape[k + 1] - 1
        lower(k) == idx[k + 1] = 0
    IN  \/ c = "ex" /\ (upper(1) \/ upper(2))
        \/ c = "ey" /\ (upper(2) \/ upper(0))
        \/ c = "ez" /\ (upper(0) \/ upper(1))
        \/ c = "hx" /\ (lower(1) \/ lower(2))
        \/ c = "hy" /\ (lower(2) \/ lower(0))
        \/ c = "hz" /\ (lower(0) \/ lower(1))

\* C11: the rule classification stores at a cell is the boundary stub exactly
\* when the cell lies on the component's boundary planes, and the rule of the
\* covering object's material otherwise (source overlays wrap the rule and
\* leave its kind).
C11_StubExactlyOnBoundary ==
    \A c \in Comps : \A idx \in Cells :
        assigned[c][idx] > 0 =>
            /\ material[c][idx].kind = "dummy" <=> OnBoundaryPlane(c, idx)
            /\ material[c][idx].kind = "diel" <=> ~OnBoundaryPlane(c, idx)

\* The full engine has classified all six components: stubs sit on the upper
\* planes of Ex and the lower planes of Hx, material rules elsewhere.
C11_Witness ==
    /\ variant = "FDTD"
    /\ \A c \in Comps : th[<<"mat", c>>].st = "done"
    /\ material["ex"][<<0, 0, 0>>].kind = "diel"
    /\ material["ex"][<<0, 1, 0>>].kind = "dummy"
    /\ material["ex"][<<0, 0, 1>>].kind = "dummy"
    /\ material["hx"][<<0, 0, 0>>].kind = "dummy"
    /\ material["hx"][<<0, 1, 0>>].kind = "dummy"
    /\ material["hx"][<<0, 1, 1>>].kind = "diel"
    /\ material["ey"][<<Shape[1] - 1, 0, 0>>].kind = "dummy"
    /\ material["hy"][<<Shape[1] - 1, 0, 1>>].kind = "diel"

\* C12: the sample at a cell on the component's boundary planes that no
\* source overlays keeps its initial value (zero) through every update pass
\* of every step() call, whatever the neighbouring arrays hold.
C12_BoundarySamplesKept ==
    \A c \in Comps : \A idx \in Cells :
        (OnBoundaryPlane(c, idx) /\ material[c][idx].over = << >>)
            => field[c][idx] = 0

\* Every pass of the full engine has run MaxCalls times over stubs without
\* overlay, next to interior samples and partner arrays that are not zero.
C12_Witness ==
    /\ variant = "FDTD"
    /\ steps = MaxCalls
    /\ \A c \in Comps : passes[c] = MaxCalls
    /\ material["ex"][<<0, 1, 0>>] = DummyRule
    /\ material["hz"][<<0, 1, 1>>] = DummyRule
    /\ field["ex"][<<0, 1, 0>>] = 0
    /\ field["hz"][<<0, 1, 1>>] = 0
    /\ field["ex"][<<1, 0, 0>>] # 0
    /\ \E idx \in Cells : field["hz"][idx] # 0
    /\ \E idx \in Cells : field["hy"][idx] # 0
    /\ \E idx \in Cells : field["ey"][idx] # 0

\* The partners and spacings of each component (the axes of dx, dy, dz are
\* 1, 2, 3).
PartnersAndSpacings(c) ==
    CASE c = "ex" -> [a |-> "hz", b |-> "hy", d1 |-> 2, d2 |-> 3]   \* Hz, Hy, dy, dz
      [] c = "ey" -> [a |-> "hx", b |-> "hz", d1 |-> 3, d2 |-> 1]   \* Hx, Hz, dz, dx
      [] c = "ez" -> [a |-> "hy", b |-> "hx", d1 |-> 1, d2 |-> 2]   \* Hy, Hx, dx, dy
      [] c = "hx" -> [a |-> "ez", b |-> "ey", d1 |-> 2, d2 |-> 3]   \* Ez, Ey, dy, dz
      [] c = "hy" -> [a |-> "ex", b |-> "ez", d1 |-> 3, d2 |-> 1]   \* Ex, Ez, dz, dx
      [] c = "hz" -> [a |-> "ey", b |-> "ex", d1 |-> 1, d2 |-> 2]   \* Ey, Ex, dx, dy

\* The sample the rule stored at idx leaves when it is invoked on the array
\* of c with the partners and spacings above.
InvokedAsListed(c, idx) ==
    LET g    == PartnersAndSpacings(c)
        rule == material[c][idx]
        base == IF rule.kind = "diel"
                THEN field[c][idx]
                     + CurlOf(IsE(c), field[g.a], field[g.b], g.d1, g.d2, idx)
                ELSE field[c][idx]
    IN  ExciteAll(rule.over, c, base)

\* C13: an update pass of a component walks the material grid of that
\* component from its first entry to its last, one entry at a time; each
\* advance invokes the rule stored at that entry on the component's own array
\* with the listed partners and spacings and changes nothing else; the array
\* changes at no other step, and the pass ends only after the last entry.
C13_EachRuleOnceWithListedArguments ==
    [][\A c \in Comps :
        LET t   == UpdThread(c)
            cur == th[t].cur
        IN  /\ th'[t].cur # cur =>
                  \/ th'[t].cur = 0 /\ th'[t].st = "ready" /\ field' = field
                  \/ /\ th'[t].cur = cur + 1
                     /\ cur < NCells
                     /\ field' = [field EXCEPT
                            ![c][CellAt(cur)] = InvokedAsListed(c, CellAt(cur))]
            /\ field'[c] # field[c] => th'[t].cur = cur + 1
            /\ passes'[c] # passes[c] =>
                  passes'[c] = passes[c] + 1 /\ cur = NCells
      ]_vars

\* An H pass of the full engine has invoked its last rule, with effect.
C13_Witness ==
    /\ variant = "FDTD"
    /\ th[UpdThread("hx")].st = "run"
    /\ th[UpdThread("hx")].cur = NCells
    /\ field["hx"][<<0, 1, 1>>] # 0
    /\ field["ez"][<<0, 0, 1>>] # 0

\* The participating components of each class (all six in the full engine).
Participants(v) ==
    CASE v = "FDTD" -> Comps
      [] v = "TEx"  -> {"ey", "ez", "hx"}
      [] v = "TEy"  -> {"ez", "ex", "hy"}
      [] v = "TEz"  -> {"ex", "ey", "hz"}
      [] v = "TMx"  -> {"ex", "hy", "hz"}
      [] v = "TMy"  -> {"ey", "hz", "hx"}
      [] v = "TMz"  -> {"ez", "hx", "hy"}
      [] v = "TEMx" -> {"ey", "hz"}
      [] v = "TEMy" -> {"ez", "hx"}
      [] v = "TEMz" -> {"ex", "hy"}

Started(job) == { c \in Comps : th[<<job, c>>].st # "off" }

\* C14: in every class the components init_material classifies, those
\* init_source injects and those step() updates are the same set, the listed
\* one; step() updates its E members in the first phase and its H members in
\* the second, and each call completes one pass of every member and of no
\* other component.
C14_SameParticipantsEverywhere ==
    LET P == Participants(variant) IN
    /\ Started("mat") = (IF pc = "ctor" THEN {} ELSE P)
    /\ Started("src") = (IF pc \in {"ctor", "mat"} THEN {} ELSE P)
    /\ Started("upd") =
            IF steps > 0 \/ pc = "H" THEN P
            ELSE IF pc = "E" THEN P \cap AllE
            ELSE {}
    /\ \A c \in Comps : Active(UpdThread(c)) =>
            /\ c \in P
            /\ c \in AllE => pc = "E"
            /\ c \in AllH => pc = "H"
    /\ pc = "idle" =>
            \A c \in Comps : passes[c] = (IF c \in P THEN steps ELSE 0)

\* A two-dimensional class has completed a step() call: one pass of each of
\* its three components, none of the others, after classifying and injecting
\* the same three.
C14_Witness ==
    /\ variant = "TMy"
    /\ pc = "idle"
    /\ steps = 1
    /\ passes = [c \in Comps |-> IF c \in {"ey", "hz", "hx"} THEN 1 ELSE 0]
    /\ \A c \in {"ey", "hz", "hx"} :
            th[<<"mat", c>>].st = "done" /\ th[<<"src", c>>].st = "done"
    /\ \A c \in {"ex", "ez", "hy"} :
            th[<<"mat", c>>].st = "off" /\ th[<<"src", c>>].st = "off"

InFlight(t) == th[t].st = "run"

UpdCallers(c) == { <<"upd", c>>, <<"upd2", c>> }

\* C15: the lock of a component is held by the thread whose update pass of
\* that component is in flight, from its first rule to its release, so of two
\* overlapping update_<c> calls at most one is in flight at any time and the
\* other has not touched a cell, or has finished.
C15_OnePassInFlight ==
    \A c \in Comps :
        /\ \A t \in UpdCallers(c) : InFlight(t) => lock[c] = t
        /\ ~(InFlight(<<"upd", c>>) /\ InFlight(<<"upd2", c>>))
        /\ \A t \in UpdCallers(c), u \in UpdCallers(c) :
              (InFlight(t) /\ u # t) =>
                  \/ th[u].st \in {"off", "done", "dead"}
                  \/ th[u].st = "ready" /\ th[u].cur = 0

\* One of two overlapping update_ey calls is half way through its pass while
\* the other waits for the lock.
C15_Witness ==
    /\ InFlight(<<"upd2", "ey">>)
    /\ th[<<"upd2", "ey">>].cur > 1
    /\ th[<<"upd2", "ey">>].cur < NCells
    /\ th[<<"upd", "ey">>].st = "ready"
    /\ lock["ey"] = <<"upd2", "ey">>
    /\ \E idx \in Cells : field["ey"][idx] # 0

\* An update pass of c has updated some cells of the array and not others.
MidPass(c) ==
    \E t \in UpdCallers(c) : InFlight(t) /\ th[t].cur > 0 /\ th[t].cur < NCells

\* C16: a read of a component's array for display or export is serialized
\* with the update pass of that component: no read takes place while a pass
\* has updated some cells but not others.
C16_ReadersSerialized ==
    [][\A c \in Comps :
          th'[<<"read", c>>].cur # th[<<"read", c>>].cur => ~MidPass(c)]_vars

\* step() has returned at least once and no call is under way.
StepReturned == pc = "idle" /\ steps > 0

\* No thread a step() call started is running, every lock is free and every
\* participating component has had one pass per call.
WorkersJoined ==
    /\ \A c \in Comps : ~Active(UpdThread(c))
    /\ ~Active(<<"write", "ex">>)
    /\ \A c \in Comps : lock[c] = Unlocked
    /\ \A c \in Participants(variant) : passes[c] = steps

\* C17: whenever step() has returned, in every class, no worker it started is
\* running, all six locks are free, both phases have been applied to every
\* participating component and the counter has advanced by both half-steps
\* of every call made: it is the number of calls.
C17_StepReturnsWhole == StepReturned => (WorkersJoined /\ nH = 2 * HALF * steps)

TEMVariants == {"TEMx", "TEMy", "TEMz"}

AllZero == \A c \in Comps : \A idx \in Cells : field[c][idx] = 0

\* C19: in a one-dimensional class with a uniform medium (every coordinate
\* covered by the same material) and no sources, the fields, zero at
\* construction, are zero after any number of step() calls and at every
\* point within a call.
C19_ZeroStaysZero ==
    (variant \in TEMVariants /\ srcs = << >> /\ gap = {}) => AllZero

\* A source-free TEMx engine has been stepped MaxCalls times, through
\* material rules and stubs, and its fields are zero.
C19_Witness ==
    /\ variant = "TEMx" /\ srcs = << >> /\ gap = {}
    /\ pc = "idle"
    /\ steps = MaxCalls
    /\ passes["ey"] = MaxCalls /\ passes["hz"] = MaxCalls
    /\ material["ey"][<<0, 0, 0>>] = MaterialRule
    /\ material["hz"][<<Shape[1] - 1, 1, 1>>] = MaterialRule
    /\ AllZero

\* C20: in a one-dimensional class without sources, starting from n = 0,
\* after 10 step() calls the counter is n = 5.0 and the time is t = 5 * dt
\* (in half units: nH = 10 and tH = 10 * Dt).
C20_TenCallsGiveFive ==
    (pc = "idle" /\ steps = ScenarioCalls) => (nH = 2 * 5 /\ tH = 2 * 5 * Dt)

\* One whole pass of component c run alone on the fields F, from entry n on.
RECURSIVE SeqPass(_, _, _)
SeqPass(c, n, F) ==
    IF n = NCells THEN F
    ELSE LET idx == CellAt(n) IN
         SeqPass(c, n + 1,
                 [F EXCEPT ![c][idx] = RuleValue(material[c][idx], c, idx, F)])

\* The passes of the components cs run one after the other.
RECURSIVE SeqPhase(_, _)
SeqPhase(cs, F) ==
    IF cs = {} THEN F
    ELSE LET c == CHOOSE x \in cs : TRUE
         IN  SeqPhase(cs \ {c}, SeqPass(c, 0, F))

\* The fields after k phases run one pass at a time from the zero fields of
\* construction.
RECURSIVE SeqField(_)
SeqField(k) ==
    IF k = 0 THEN [c \in Comps |-> [idx \in Cells |-> 0]]
    ELSE SeqPhase(IF k % 2 = 1 THEN EComps(variant) ELSE HComps(variant),
                  SeqField(k - 1))

\* The components the passes of the current phase write.
PhaseWrites == IF pc = "E" THEN EComps(variant) ELSE HComps(variant)

\* C21: within a phase of step() a pass writes only the array of its own
\* component and reads, besides it, only arrays that no pass of the phase
\* writes; the fields a phase leaves when it is joined are those of its
\* passes run one after the other, whatever the interleaving of its workers.
C21_PhaseResultIndependentOfInterleaving ==
    [][/\ \A c \in Comps :
             (pc \in {"E", "H"} /\ Active(UpdThread(c))) =>
                 /\ c \in PhaseWrites
                 /\ Args(c).a \notin PhaseWrites
                 /\ Args(c).b \notin PhaseWrites
       /\ \A c \in Comps :
             field'[c] # field[c] =>
                 /\ th'[UpdThread(c)].cur = th[UpdThread(c)].cur + 1
                 /\ \A d \in Comps \ {c} : field'[d] = field[d]
       /\ (pc = "E" /\ pc' = "H") => field = SeqField(2 * steps + 1)
       /\ (pc = "H" /\ pc' = "idle") => field = SeqField(2 * steps + 2)
      ]_vars

\* Two E passes of the second step() call of the full engine are both part
\* way through their arrays, the third has not started, on non-zero fields.
C21_Witness ==
    /\ variant = "FDTD"
    /\ pc = "E"
    /\ steps = 1
    /\ InFlight(UpdThread("ex")) /\ th[UpdThread("ex")].cur \in 1 .. NCells - 1
    /\ InFlight(UpdThread("ey")) /\ th[UpdThread("ey")].cur \in 1 .. NCells - 1
    /\ th[UpdThread("ez")].st = "ready"
    /\ \E idx \in Cells : field["hz"][idx] # 0
    /\ \E idx \in Cells : field["ex"][idx] # 0

\* The grid a classification pass of c leaves when it assigns every index.
FullyClassified(c) == [idx \in Cells |-> ClassifyRule(c, idx)]

\* init_material has started its threads and every one of them has ended.
ClassificationEnded == pc = "mat" /\ MatJoined

\* Every pass that was started has assigned each index of its own array
\* once, no other array has been assigned and the fields are as allocated.
ClassifiedOnceEach ==
    /\ \A c \in Comps : \A idx \in Cells :
          assigned[c][idx] = (IF c \in Started("mat") THEN 1 ELSE 0)
    /\ \A c \in Comps :
          material[c] = (IF c \in Started("mat") THEN FullyClassified(c)
                         ELSE AllocGrid)
    /\ AllZero

\* C22: when init_material is about to return, each classification pass
\* has assigned every index of its own material array exactly once and
\* nothing else has been written, so the material grid is the same whatever
\* the interleaving of the passes was.
C22_ClassificationIndependent == ClassificationEnded => ClassifiedOnceEach

\* The elements of a list, as objects.
Contents(list) == [i \in 1 .. Len(list) |-> heap[list[i]]]

\* What the engine works with: its two lists and the objects in them.
EngineLists ==
    << self_geom_list, self_src_list,
       Contents(self_geom_list), Contents(self_src_list) >>

\* The identities of the elements of the caller's lists.
CallerIds ==
    { geom_list[i] : i \in 1 .. Len(geom_list) }
        \cup { src_list[i] : i \in 1 .. Len(src_list) }

\* C23: the constructor initializes copies: no step of it changes an object
\* of the caller, whose objects stay uninitialized; once the engine has its
\* lists, they have the length and the attributes of the caller's at the
\* call, initialized, and no change the caller makes to its lists or to
\* their elements changes the engine's lists or the objects in them.
C23_EngineOwnsCopies ==
    [][/\ \A a \in CallerIds : ~heap[a].inited
       /\ cpc # "built" => \A a \in CallerIds : heap'[a] = heap[a]
       /\ (cpc = "src_init" /\ cpc' = "built") =>
             /\ Len(self_geom_list') = Len(geom_list)
             /\ Len(self_src_list') = Len(src_list)
             /\ \A i \in 1 .. Len(geom_list) :
                   heap'[self_geom_list'[i]] =
                       [heap[geom_list[i]] EXCEPT !.inited = TRUE]
             /\ \A i \in 1 .. Len(src_list) :
                   heap'[self_src_list'[i]] =
                       [heap[src_list[i]] EXCEPT !.inited = TRUE]
       /\ cpc = "built" => EngineLists' = EngineLists
      ]_vars

\* The caller has changed an element of its source list and shortened its
\* geometry list after construction; the engine has two initialized objects
\* in each of its lists, the source objects as they were at the call.
C23_Witness ==
    /\ cpc = "built"
    /\ Len(self_geom_list) = 2 /\ Len(self_src_list) = 2
    /\ Len(geom_list) = 1 /\ Len(src_list) = 2
    /\ heap[src_list[1]].val = 1 /\ heap[self_src_list[1]].val = 0
    /\ \A i \in 1 .. 2 : heap[self_src_list[i]].inited
    /\ \A i \in 1 .. 2 : heap[self_geom_list[i]].inited
    /\ \A a \in CallerIds : ~heap[a].inited

\* Every classification pass of the engine ran to its end.
SuccessfullyConstructed ==
    ConstructorReturned /\ \A c \in MatComps(variant) : th[<<"mat", c>>].st = "done"

\* The locks a thread holds.
Held(t) == { c \in Comps : ~LockFree(c) /\ lock[c] = t }

\* C24: on a successfully constructed engine a worker of step() holds at
\* most one lock, that of its own component, and none once it has ended, and
\* every step() call that has started returns.
C24_StepTerminates ==
    /\ [](SuccessfullyConstructed =>
             \A c \in Comps :
                 /\ Held(UpdThread(c)) \subseteq {c}
                 /\ ~InFlight(UpdThread(c)) => Held(UpdThread(c)) = {})
    /\ (SuccessfullyConstructed /\ pc \in {"E", "H"}) ~> (pc = "idle")

\* The full engine has returned from its last step() call, every pass made
\* and every lock free.
C24_Witness ==
    /\ variant = "FDTD"
    /\ SuccessfullyConstructed
    /\ pc = "idle"
    /\ steps = MaxCalls
    /\ \A c \in Comps : passes[c] = MaxCalls /\ lock[c] = Unlocked
    /\ \E idx \in Cells : field["hz"][idx] # 0

\* C25: a classification or update pass that has ended, by returning or by
\* raising, no longer holds the lock of its component, so no later pass of
\* that component waits for a lock nobody will release.
C25_LockReleasedOnEveryExit ==
    \A c \in Comps :
        \A t \in { <<"mat", c>>, <<"upd", c>> } :
            Terminated(t) => Held(t) = {}

WriteThread == <<"write", "ex">>

\* C26: write_ex is active only in the second phase of FDTD.step, when every
\* E worker of the call has ended; the Ex pass of this call is complete, so
\* the Ex array it reads is the E-updated one, and no step taken while
\* write_ex is active changes that array.
C26_WriteExReadsSettledEx ==
    [][ Active(WriteThread) =>
          /\ variant = "FDTD"
          /\ pc = "H"
          /\ \A c \in EComps(variant) : Terminated(UpdThread(c))
          /\ passes["ex"] = steps + 1
          /\ field'["ex"] = field["ex"] ]_vars

\* write_ex is about to read Ex in the second step() call, next to running
\* H workers, and Ex holds nonzero samples.
C26_Witness ==
    /\ th[WriteThread].st = "ready"
    /\ steps = 1
    /\ \E c \in HComps(variant) : InFlight(UpdThread(c))
    /\ \E idx \in Cells : field["ex"][idx] # 0

\* The components a class leaves out.
Outside(v) == Comps \ Participants(v)

\* C27: in every class no step changes the field array of a component
\* outside the class's subset, and such an array holds the zeros it was
\* allocated with, before, during and after every step() call.
C27_OutsideArraysUntouched ==
    [][ \A c \in Outside(variant) :
          /\ \A idx \in Cells : field[c][idx] = 0
          /\ field'[c] = field[c] ]_vars

\* A TEx engine has returned from its last step() call with a nonzero Ey
\* sample, and Ex, Hy and Hz are what construction left.
C27_Witness ==
    /\ variant = "TEx"
    /\ pc = "idle"
    /\ steps = MaxCalls
    /\ \A c \in Participants(variant) : passes[c] = MaxCalls
    /\ \E idx \in Cells : field["ey"][idx] # 0
    /\ \A c \in {"ex", "hy", "hz"} : \A idx \in Cells : field[c][idx] = 0

\* A show request the claim calls malformed.
Malformed(r) == r.axis \notin {"X", "Y", "Z"} \/ r.comp \notin AxisComps(r.axis)

\* C28: a show request whose axis is no X, Y or Z directional, or whose
\* component does not belong to the axis, raises ValueError, starts no
\* display and leaves fig_id as it is; every other show request starts a
\* display with the current fig_id and adds exactly one to fig_id.
C28_MalformedShowRaisesValueError ==
    [][ showCalls' = showCalls + 1 =>
          IF Malformed(request')
          THEN /\ raised' = "ValueError"
               /\ displays' = displays
               /\ fig_id' = fig_id
          ELSE /\ raised' = "none"
               /\ displays' = Append(displays, fig_id)
               /\ fig_id' = fig_id + 1 ]_vars

====
